---- MODULE Spec2Model ----
(***************************************************************************)
(* TaskService (backend/src/services/task.service.ts): createTaskRecord    *)
(* and updateTaskRating as interleaved request handlers over the           *)
(* "projects" and "task_records" tables and the blockchain registrar.      *)
(* Every await of the source is one step of the handler that owns it.      *)
(* created_at / updated_at columns carry no logic and are left out.        *)
(***************************************************************************)
EXTENDS Integers, Sequences, FiniteSets, TLC

\* ---------------------------------------------------------------- bounds
\* the number of requests served in a run; each has its own handler frame
MaxCalls == 2

Procs == 1..MaxCalls

\* ------------------------------------------------- optional values (T | null)
Null == <<>>
Some(v) == <<v>>
Val(o) == o[1]

\* ---------------------------------------------------------------- inputs
ProjectIds == {"p1"}
MissingProjectId == "p0"
ClientOf == [p \in ProjectIds |-> "c1"]
ClientIds == {"c1", "c2"}
FreelancerIds == {"f1"}
\* the code tells in_progress from every other status and writes these two
Statuses == {"in_progress", "completed", "cancelled"}
Descriptions == {Null}
RecordIds == 1..2
Ratings == {1, 5}
\* comment: undefined (Null) or a string, a string being the sequence of its
\* UTF-16 code units: "", " \t", "\na b" followed by a no-break space
Comments == {Null, Some(<<>>), Some(<<32, 9>>), Some(<<10, 97, 32, 98, 160>>)}
\* what the registrar returns to request n when it succeeds: a transaction
\* hash and a task id of its own
RegistrarResult(n) == [transactionHash |-> <<"tx", n>>, taskId |-> n]

\* ---------------------------------------------------------------- store
\* PostgREST: .single() on anything but exactly one row is error PGRST116
NoRowsCode == "PGRST116"
OtherErrorCode == "XX000"

Single(rows) ==
  IF Len(rows) = 1
    THEN [data |-> Some(rows[1]), error |-> Null]
    ELSE [data |-> Null, error |-> Some(NoRowsCode)]

StoreFailure == [data |-> Null, error |-> Some(OtherErrorCode)]

\* projects, task_records: the two tables; inv: the handler frames;
\* last: the response delivered by the latest step;
\* createdOk: projects a createTaskRecord of this run has returned a record for;
\* ratedOk: per record, what the first successful updateTaskRating stored
VARIABLES projects, task_records, inv, last, createdOk, ratedOk

vars == <<projects, task_records, inv, last, createdOk, ratedOk>>

\* from("projects").select(...).eq("id", project_id)
SelectProject(project_id) ==
  IF project_id \in DOMAIN projects
    THEN << [id |-> project_id,
             client_id |-> projects[project_id].client_id,
             status |-> projects[project_id].status] >>
    ELSE <<>>

\* the duplicate lookup keyed on the wrong column
SelectByFreelancer(project_id) ==
  SelectSeq(task_records, LAMBDA r : r.freelancer_id = project_id)

\* from("task_records").select("id").eq("project_id", project_id)
SelectByProject(project_id) ==
  SelectSeq(task_records, LAMBDA r : r.project_id = project_id)

\* from("task_records").select("*").eq("id", recordId)
SelectById(recordId) ==
  SelectSeq(task_records, LAMBDA r : r.id = recordId)

\* insert with a uniqueness constraint on project_id (not what the store has)
InsertRowUnique(rows, row) ==
  IF \E k \in 1..Len(rows) : rows[k].project_id = row.project_id
    THEN [rows |-> rows, data |-> Null, error |-> Some("23505")]
    ELSE [rows |-> Append(rows, row), data |-> Some(row), error |-> Null]

\* from("task_records").insert([...]).select().single(): no uniqueness on
\* project_id, the store assigns the next id
InsertRow(rows, row) ==
  [rows |-> Append(rows, row), data |-> Some(row), error |-> Null]

\* ---------------------------------------------------------------- handler state
IdleInv ==
  [pc |-> "idle", op |-> "none",
   project_id |-> "none", freelancer_id |-> "none", completed |-> FALSE,
   outcome_description |-> Null, clientId |-> "none",
   recordId |-> 0, rating |-> 0, comment |-> Null,
   project |-> Null, existingRecord |-> Null,
   retryCount |-> 0, blockchainResult |-> Null,
   taskRecord |-> Null, updateData |-> Null,
   outcome |-> "none",
   \* history of this invocation
   attempts |-> 0, waits |-> <<>>, inserts |-> 0, writes |-> 0,
   faulted |-> FALSE, priorOk |-> FALSE, raced |-> FALSE, registered |-> Null]

InFlight(j) == inv[j].pc \notin {"idle", "done"}
Quiescent == \A j \in Procs : ~InFlight(j)

\* the row an earlier createTaskRecord({p1, f1, completed: true}, c1) left,
\* registered on the ledger
EarlierRow ==
  [id |-> 1, project_id |-> "p1", freelancer_id |-> "f1", client_id |-> "c1",
   completed |-> TRUE, outcome_description |-> Null,
   on_chain_tx_hash |-> Some(RegistrarResult(0).transactionHash),
   on_chain_task_id |-> Some(RegistrarResult(0).taskId),
   rating |-> Null, rating_comment |-> Null]

\* the store is empty, or holds the outcome of one earlier request; the
\* project's status is whatever project management has made it
Init ==
  /\ projects \in [ProjectIds -> [client_id : ClientIds, status : Statuses]]
  /\ \A p \in ProjectIds : projects[p].client_id = ClientOf[p]
  /\ task_records \in {<<>>, <<EarlierRow>>}
  /\ createdOk = {}
  /\ inv = [i \in Procs |-> IdleInv]
  /\ last = IdleInv
  /\ ratedOk = {}

\* a handler that has returned or thrown: its frame is gone
Gone == [IdleInv EXCEPT !.pc = "done"]

\* the response delivered to the caller, with the call it answers
Finished(self, kind) ==
  [IdleInv EXCEPT !.pc = "done", !.op = self.op, !.outcome = kind,
                  !.project_id = self.project_id, !.recordId = self.recordId,
                  !.clientId = self.clientId, !.comment = self.comment,
                  !.project = self.project, !.taskRecord = self.taskRecord,
                  !.attempts = self.attempts, !.waits = self.waits,
                  !.inserts = self.inserts, !.writes = self.writes,
                  !.faulted = self.faulted, !.priorOk = self.priorOk,
                  !.raced = self.raced, !.registered = self.registered]

\* a thrown error carries no record
Fail(self, kind) == Finished([self EXCEPT !.comment = Null], kind)

\* handler i moves to frame next; last is the response this step delivered
\* to a caller, if it delivered one
Advance(i, next) ==
  /\ inv' = [inv EXCEPT ![i] = IF next.pc = "done" THEN Gone ELSE next]
  /\ last' = IF next.pc = "done" THEN next ELSE IdleInv

\* requests are numbered in the order they arrive
FreeSlot(i) ==
  /\ inv[i].pc = "idle"
  /\ \A j \in Procs : j < i => inv[j].pc # "idle"

\* ---------------------------------------------------------------- createTaskRecord
\* the status check left out
StatusAlwaysOk(project) == TRUE

\* line 40 negated: the status check passes
StatusIsInProgress(project) == project.status = "in_progress"

\* the authorization check left out
AnyRequester(project, clientId) == TRUE

\* line 45 negated: the requester is the project's client
IsProjectClient(project, clientId) == project.client_id = clientId

\* lines 25-47: entry, project lookup, status check, authorization check
createTaskRecord(i, data, clientId) ==
  /\ FreeSlot(i)
  /\ \E fault \in BOOLEAN :
       LET res == IF fault THEN StoreFailure ELSE Single(SelectProject(data.project_id))
           seen == [IdleInv EXCEPT !.op = "createTaskRecord",
                                   !.project_id = data.project_id,
                                   !.freelancer_id = data.freelancer_id,
                                   !.completed = data.completed,
                                   !.outcome_description = data.outcome_description,
                                   !.clientId = clientId,
                                   !.priorOk = (data.project_id \in createdOk),
                                   !.project = res.data, !.faulted = fault]
       IN Advance(i,
            IF res.error # Null \/ res.data = Null
              THEN Fail(seen, "NotFoundError")
            ELSE IF ~StatusIsInProgress(Val(res.data))
              THEN Fail(seen, "ValidationError")
            ELSE IF ~IsProjectClient(Val(res.data), clientId)
              THEN Fail(seen, "AuthorizationError")
            ELSE [seen EXCEPT !.pc = "checkExisting"])
  /\ UNCHANGED <<projects, task_records, createdOk, ratedOk>>

\* line 67
maxRetries == 3

\* the retry loop passed over
LoopSkipped(self) == [self EXCEPT !.pc = "insert"]

\* line 70: the while condition, evaluated on entry and after each backoff
LoopHead(self) ==
  IF self.retryCount < maxRetries
    THEN [self EXCEPT !.pc = "recordTask"]
    ELSE [self EXCEPT !.pc = "insert"]

\* the duplicate check left out
NeverExisting(existingRecord) == FALSE

\* line 56: a record already exists
HasExistingRecord(existingRecord) == existingRecord # Null

\* lines 49-67: duplicate check, then the retry loop is entered
CheckExisting(i) ==
  /\ inv[i].pc = "checkExisting"
  /\ \E fault \in BOOLEAN :
       LET self == inv[i]
           res == IF fault THEN StoreFailure ELSE Single(SelectByProject(self.project_id))
           seen == [self EXCEPT !.existingRecord = res.data,
                                !.faulted = @ \/ fault]
       IN Advance(i,
            IF HasExistingRecord(res.data)
              THEN Fail(seen, "ConflictError")
            ELSE IF res.error # Null /\ Val(res.error) # NoRowsCode
              THEN Fail(seen, "AppError500")
            ELSE LoopHead([seen EXCEPT !.retryCount = 0,
                                       !.blockchainResult = Null]))
  /\ UNCHANGED <<projects, task_records, createdOk, ratedOk>>

\* a backoff that does not grow
BackoffConstant(retryCount) == 2 * 1000

\* line 91: Math.pow(2, retryCount) * 1000 milliseconds
BackoffDelay(retryCount) == (2 ^ retryCount) * 1000

\* the retry limit not looked at
NeverExhausted(retryCount) == FALSE

\* lines 84-88: give up after the catch has counted this failure
AttemptsExhausted(retryCount) == retryCount >= maxRetries

\* lines 70-93: one registrar call, with its catch block
RecordTask(i) ==
  /\ inv[i].pc = "recordTask"
  /\ \E ok \in BOOLEAN :
       LET self == [inv[i] EXCEPT !.attempts = @ + 1]
           r == RegistrarResult(i)
       IN Advance(i,
               IF ok
                 THEN [self EXCEPT !.blockchainResult = Some(r),
                                   !.registered = Some(r), !.pc = "insert"]
                 ELSE LET failed == [self EXCEPT !.retryCount = @ + 1] IN
                      IF AttemptsExhausted(failed.retryCount)
                        THEN [failed EXCEPT !.pc = "insert"]
                        ELSE [failed EXCEPT
                                !.pc = "backoff",
                                !.waits = Append(@, BackoffDelay(failed.retryCount))])
  /\ UNCHANGED <<projects, task_records, createdOk, ratedOk>>

\* line 91: the timer fires, back to the loop head
Backoff(i) ==
  /\ inv[i].pc = "backoff"
  /\ Advance(i, LoopHead(inv[i]))
  /\ UNCHANGED <<projects, task_records, createdOk, ratedOk>>

\* the registrar result not copied into the row
OnChainDropped(blockchainResult) == [on_chain_tx_hash |-> Null, on_chain_task_id |-> Null]

\* lines 105-106: blockchainResult?.transactionHash, blockchainResult?.taskId
OnChainFields(blockchainResult) ==
  IF blockchainResult = Null
    THEN [on_chain_tx_hash |-> Null, on_chain_task_id |-> Null]
    ELSE [on_chain_tx_hash |-> Some(Val(blockchainResult).transactionHash),
          on_chain_task_id |-> Some(Val(blockchainResult).taskId)]

\* lines 98-108: the row handed to insert (id, rating columns: store defaults)
NewTaskRow(self) ==
  [id |-> Len(task_records) + 1,
   project_id |-> self.project_id,
   freelancer_id |-> self.freelancer_id,
   client_id |-> self.clientId,
   completed |-> self.completed,
   outcome_description |-> self.outcome_description,
   on_chain_tx_hash |-> OnChainFields(self.blockchainResult).on_chain_tx_hash,
   on_chain_task_id |-> OnChainFields(self.blockchainResult).on_chain_task_id,
   rating |-> Null,
   rating_comment |-> Null]

\* another createTaskRecord for the same project is between its duplicate
\* check and its insert
RivalPastCheck(i) ==
  \E j \in Procs \ {i} :
    /\ inv[j].op = "createTaskRecord"
    /\ inv[j].project_id = inv[i].project_id
    /\ inv[j].pc \in {"recordTask", "backoff", "insert"}

\* an insert error not looked at
InsertErrorIgnored(res) == FALSE

\* line 112: if (insertError)
InsertFailed(res) == res.error # Null

\* lines 95-114: insert of the task record
InsertTaskRecord(i) ==
  /\ inv[i].pc = "insert"
  /\ \E fault \in BOOLEAN :
       LET self == [inv[i] EXCEPT !.inserts = @ + 1, !.faulted = @ \/ fault]
           res == IF fault
                    THEN [rows |-> task_records, data |-> Null,
                          error |-> Some(OtherErrorCode)]
                    ELSE InsertRow(task_records, NewTaskRow(self))
       IN /\ task_records' = res.rows
          /\ Advance(i,
               IF InsertFailed(res)
                 THEN Fail(self, "AppError500")
                 ELSE [self EXCEPT !.taskRecord = res.data,
                                   !.writes = IF res.error = Null THEN @ + 1 ELSE @,
                                   !.raced = RivalPastCheck(i),
                                   !.pc = "updateProject"])
  /\ UNCHANGED <<projects, createdOk, ratedOk>>

\* the outcome not looked at
AlwaysCompleted(completed) == "completed"

\* line 117
newProjectStatus(completed) == IF completed THEN "completed" ELSE "cancelled"

\* lines 116-132: project status update (error swallowed), return
UpdateProjectStatus(i) ==
  /\ inv[i].pc = "updateProject"
  /\ \E fault \in BOOLEAN :
       LET self == inv[i] IN
       /\ projects' = IF fault THEN projects
                      ELSE [projects EXCEPT ![self.project_id].status =
                                               newProjectStatus(self.completed)]
       /\ Advance(i,
            Finished([self EXCEPT !.faulted = @ \/ fault,
                                  !.writes = IF fault THEN @ ELSE @ + 1], "ok"))
       /\ createdOk' = createdOk \cup {self.project_id}
  /\ UNCHANGED <<task_records, ratedOk>>

\* ---------------------------------------------------------------- updateTaskRating
\* the code units String.prototype.trim strips: WhiteSpace (tab, vertical
\* tab, form feed, space, no-break space, U+FEFF and the space separators
\* U+1680, U+2000..U+200A, U+202F, U+205F, U+3000) and LineTerminator (line
\* feed, carriage return, U+2028, U+2029)
WhiteSpace ==
  {9, 10, 11, 12, 13, 32, 160, 5760} \cup (8192..8202)
    \cup {8232, 8233, 8239, 8287, 12288, 65279}

IsSpace(c) == c \in WhiteSpace

RECURSIVE TrimStart(_)
TrimStart(s) ==
  IF Len(s) > 0 /\ IsSpace(Head(s)) THEN TrimStart(Tail(s)) ELSE s

RECURSIVE TrimEnd(_)
TrimEnd(s) ==
  IF Len(s) > 0 /\ IsSpace(s[Len(s)]) THEN TrimEnd(SubSeq(s, 1, Len(s) - 1)) ELSE s

\* String.prototype.trim
Trim(s) == TrimEnd(TrimStart(s))

\* a comment stored as given
NormalizeNoTrim(s) == IF Len(s) > 0 THEN Some(s) ELSE Null

\* line 242: comment && comment.trim().length > 0 ? comment.trim() : null
NormalizeComment(s) ==
  IF Len(s) > 0 /\ Len(Trim(s)) > 0 THEN Some(Trim(s)) ELSE Null

\* lines 235-243: updateData; rating_comment is a key only when comment is given
BuildUpdateData(rating, comment) ==
  IF comment # Null
    THEN [rating |-> rating, has_comment |-> TRUE,
          rating_comment |-> NormalizeComment(Val(comment))]
    ELSE [rating |-> rating, has_comment |-> FALSE, rating_comment |-> Null]

\* the write-once check left out
RatingNeverSet(taskRecord) == FALSE

\* line 225
RatingAlreadySet(taskRecord) == taskRecord.rating # Null

\* the completed check left out
AnyTaskRatable(taskRecord) == TRUE

\* line 230 negated
TaskIsCompleted(taskRecord) == taskRecord.completed

\* lines 202-243: entry, lookup, authorization, write-once and completed
\* checks, updateData
updateTaskRating(i, recordId, data, clientId) ==
  /\ FreeSlot(i)
  /\ \E fault \in BOOLEAN :
       LET res == IF fault THEN StoreFailure ELSE Single(SelectById(recordId))
           seen == [IdleInv EXCEPT !.op = "updateTaskRating",
                                   !.recordId = recordId,
                                   !.rating = data.rating,
                                   !.comment = data.comment,
                                   !.clientId = clientId,
                                   !.priorOk = (\E g \in ratedOk : g.id = recordId),
                                   !.taskRecord = res.data, !.faulted = fault]
       IN Advance(i,
            IF res.error # Null \/ res.data = Null
              THEN IF res.error # Null /\ Val(res.error) = NoRowsCode
                     THEN Fail(seen, "NotFoundError")
                     ELSE Fail(seen, "AppError500")
            ELSE IF Val(res.data).client_id # clientId
              THEN Fail(seen, "AuthorizationError")
            ELSE IF RatingAlreadySet(Val(res.data))
              THEN Fail(seen, "ConflictError")
            ELSE IF ~TaskIsCompleted(Val(res.data))
              THEN Fail(seen, "ValidationError")
            ELSE [seen EXCEPT !.updateData =
                                 Some(BuildUpdateData(data.rating, data.comment)),
                              !.pc = "updateRecord"])
  /\ UNCHANGED <<projects, task_records, createdOk, ratedOk>>

\* from("task_records").update(updateData).eq("id", recordId): no condition
\* on the current rating
ApplyUpdate(row, updateData) ==
  [row EXCEPT !.rating = Some(updateData.rating),
              !.rating_comment = IF updateData.has_comment
                                   THEN updateData.rating_comment ELSE @]

UpdateRows(rows, recordId, updateData) ==
  [k \in 1..Len(rows) |->
     IF rows[k].id = recordId THEN ApplyUpdate(rows[k], updateData) ELSE rows[k]]

\* lines 245-256: the update, return of the updated row
UpdateTaskRecord(i) ==
  /\ inv[i].pc = "updateRecord"
  /\ \E fault \in BOOLEAN :
       LET self == [inv[i] EXCEPT !.faulted = @ \/ fault]
           rows == IF fault THEN task_records
                   ELSE UpdateRows(task_records, self.recordId, Val(self.updateData))
           res == IF fault THEN StoreFailure
                  ELSE Single(SelectSeq(rows, LAMBDA r : r.id = self.recordId))
       IN /\ task_records' = rows
          /\ Advance(i,
               IF res.error # Null
                 THEN Fail(self, "AppError500")
                 ELSE Finished([self EXCEPT !.taskRecord = res.data,
                                            !.writes = @ + 1], "ok"))
          /\ ratedOk' =
               IF res.error = Null /\ ~(\E g \in ratedOk : g.id = self.recordId)
                 THEN ratedOk \cup {[id |-> self.recordId,
                                     rating |-> Val(res.data).rating,
                                     rating_comment |-> Val(res.data).rating_comment]}
                 ELSE ratedOk
  /\ UNCHANGED <<projects, createdOk>>

\* ---------------------------------------------------------------- environment
\* project-management logic outside this service rewrites a project's status
ExternalStatusChange(p, s) ==
  /\ projects[p].status # s
  /\ projects' = [projects EXCEPT ![p].status = s]
  /\ last' = IdleInv
  /\ UNCHANGED <<task_records, inv, createdOk, ratedOk>>

CreateInputs ==
  [project_id : ProjectIds \cup {MissingProjectId}, freelancer_id : FreelancerIds,
   completed : BOOLEAN, outcome_description : Descriptions]

RatingInputs == [rating : Ratings, comment : Comments]

Step(i) ==
  \/ CheckExisting(i)
  \/ RecordTask(i)
  \/ Backoff(i)
  \/ InsertTaskRecord(i)
  \/ UpdateProjectStatus(i)
  \/ UpdateTaskRecord(i)

\* requests arrive at any time and interleave at their awaits
Next ==
  \/ \E i \in Procs, data \in CreateInputs, c \in ClientIds : createTaskRecord(i, data, c)
  \/ \E i \in Procs, r \in RecordIds, data \in RatingInputs, c \in ClientIds :
       updateTaskRating(i, r, data, c)
  \/ \E i \in Procs : Step(i)
  \/ \E p \in ProjectIds, s \in Statuses : ExternalStatusChange(p, s)

Spec == Init /\ [][Next]_vars

\* the steps of createTaskRecord past its entry
CreateStep(i) ==
  \/ CheckExisting(i)
  \/ RecordTask(i)
  \/ Backoff(i)
  \/ InsertTaskRecord(i)
  \/ UpdateProjectStatus(i)

\* requests never overlap: one starts only when none is in flight
SeqNext ==
  \/ \E i \in Procs, data \in CreateInputs, c \in ClientIds :
       Quiescent /\ createTaskRecord(i, data, c)
  \/ \E i \in Procs, r \in RecordIds, data \in RatingInputs, c \in ClientIds :
       Quiescent /\ updateTaskRating(i, r, data, c)
  \/ \E i \in Procs : Step(i)
  \/ \E p \in ProjectIds, s \in Statuses : ExternalStatusChange(p, s)

SeqSpec == Init /\ [][SeqNext]_vars

\* createTaskRecord requests one at a time, with external status changes at
\* any point
SeqCreateNext ==
  \/ \E i \in Procs, data \in CreateInputs, c \in ClientIds :
       Quiescent /\ createTaskRecord(i, data, c)
  \/ \E i \in Procs : CreateStep(i)
  \/ \E p \in ProjectIds, s \in Statuses : ExternalStatusChange(p, s)

\* every pending store call, registrar call and backoff timer comes back
SeqFairSpec == Init /\ [][SeqCreateNext]_vars /\ \A i \in Procs : WF_vars(CreateStep(i))

\* ---------------------------------------------------------------- properties
\* the number of rows task_records holds for a project
RowsOf(project_id) ==
  Cardinality({k \in 1..Len(task_records) : task_records[k].project_id = project_id})

CreateDone == last.pc = "done" /\ last.op = "createTaskRecord"
RatingDone == last.pc = "done" /\ last.op = "updateTaskRating"

\* C1: a createTaskRecord whose project lookup returned a project that is
\* not in_progress fails with ValidationError whoever the requester is, and
\* has made no insert, no status write and no registrar call.
C1_NotInProgressIsRejected ==
  (CreateDone /\ last.project # Null /\ Val(last.project).status # "in_progress")
    => /\ last.outcome = "ValidationError"
       /\ last.writes = 0
       /\ last.inserts = 0
       /\ last.attempts = 0

C1_Witness ==
  /\ CreateDone
  /\ last.project # Null
  /\ Val(last.project).status = "completed"
  /\ last.clientId # Val(last.project).client_id
  /\ last.outcome = "ValidationError"
  /\ task_records = <<>>

\* C2 as stated: for every existing project, a requester other than its
\* client gets AuthorizationError and the registrar is not called.
C2_Original ==
  (CreateDone /\ last.project # Null
     /\ Val(last.project).client_id # last.clientId)
    => /\ last.outcome = "AuthorizationError"
       /\ last.attempts = 0

\* C2 amended: a requester other than the project's client gets
\* AuthorizationError when the project is in_progress and ValidationError
\* when it is not (the status check comes first); either way the registrar
\* is not called and nothing is written.
C2_NonClientIsRejected ==
  (CreateDone /\ last.project # Null
     /\ Val(last.project).client_id # last.clientId)
    => /\ last.outcome = IF Val(last.project).status = "in_progress"
                           THEN "AuthorizationError" ELSE "ValidationError"
       /\ last.attempts = 0
       /\ last.writes = 0
       /\ last.inserts = 0

C2_Witness ==
  /\ CreateDone
  /\ last.project # Null
  /\ Val(last.project).client_id # last.clientId
  /\ last.outcome = "AuthorizationError"

\* the requests of C3: the project's client calls again after an earlier
\* createTaskRecord of this run has returned a record for the project
SecondCreate ==
  /\ CreateDone
  /\ last.priorOk
  /\ last.project_id \in ProjectIds
  /\ last.clientId = ClientOf[last.project_id]

\* C3 as stated: without overlap, the second createTaskRecord of the
\* project's client for a project fails with Conflict (no store call of it
\* failing).
C3_Original ==
  (SecondCreate /\ ~last.faulted) => last.outcome = "ConflictError"

\* C3 amended: without overlap, the second createTaskRecord never succeeds
\* and writes nothing; with no store failure it fails with ValidationError
\* when the project is no longer in_progress (the first call's status update
\* took effect) and with Conflict only when the project is still in_progress.
C3_SecondCreateIsRejected ==
  SecondCreate
    => /\ last.outcome # "ok"
       /\ last.writes = 0
       /\ last.inserts = 0
       /\ last.attempts = 0
       /\ ~last.faulted =>
            last.outcome = IF Val(last.project).status = "in_progress"
                             THEN "ConflictError" ELSE "ValidationError"

C3_Witness ==
  /\ SecondCreate
  /\ ~last.faulted
  /\ last.outcome = "ValidationError"
  /\ RowsOf(last.project_id) = 1

\* C4: the store has no uniqueness constraint on project_id: an insert
\* fails only by a store failure, never because the project already has a
\* row, and the row it returns is in the table.
C4_InsertNeverRejectsDuplicate ==
  /\ (CreateDone /\ last.inserts = 1 /\ last.outcome = "AppError500")
       => last.faulted
  /\ \A i \in Procs :
       inv[i].pc = "updateProject"
         => /\ Val(inv[i].taskRecord).id \in 1..Len(task_records)
            /\ task_records[Val(inv[i].taskRecord).id].project_id = inv[i].project_id

\* two createTaskRecord for one project had both passed the duplicate check
\* before either inserted, both inserts succeeded: two rows for the project
C4_Witness ==
  \E i, j \in Procs :
    /\ i # j
    /\ inv[i].pc = "updateProject" /\ inv[j].pc = "updateProject"
    /\ inv[i].project_id = inv[j].project_id
    /\ inv[i].raced
    /\ inv[i].existingRecord = Null /\ inv[j].existingRecord = Null
    /\ Val(inv[i].taskRecord).id < Val(inv[j].taskRecord).id
    /\ RowsOf(inv[i].project_id) = 2

\* C5: when requests never overlap, no project has more than one task
\* record.
C5_AtMostOneRecordPerProject ==
  \A p \in ProjectIds : RowsOf(p) <= 1

\* a request met the record of an earlier one whose status update had left
\* the project in_progress
C5_Witness ==
  /\ CreateDone
  /\ last.priorOk
  /\ last.outcome = "ConflictError"
  /\ projects[last.project_id].status = "in_progress"
  /\ RowsOf(last.project_id) = 1

\* a createTaskRecord frame that has left the retry loop
PastRetryLoop(f) == f.op = "createTaskRecord" /\ f.pc \in {"insert", "updateProject"}

AllAttemptsFailed(f) ==
  /\ f.attempts = 3
  /\ f.waits = <<2000, 4000>>

\* C6: a createTaskRecord that leaves the retry loop without a registrar
\* result has made exactly 3 registrar calls and waited exactly twice, 2000
\* ms then 4000 ms; the row it inserts and the record it returns have
\* on_chain_tx_hash and on_chain_task_id unset; it ends without a record
\* only if the insert itself failed.
C6_ThreeAttemptsTwoWaits ==
  /\ \A i \in Procs :
       (PastRetryLoop(inv[i]) /\ inv[i].registered = Null)
         => /\ AllAttemptsFailed(inv[i])
            /\ inv[i].blockchainResult = Null
            /\ inv[i].pc = "updateProject"
                 => /\ Val(inv[i].taskRecord).on_chain_tx_hash = Null
                    /\ Val(inv[i].taskRecord).on_chain_task_id = Null
  /\ (CreateDone /\ last.attempts > 0 /\ last.registered = Null)
       => /\ AllAttemptsFailed(last)
          /\ \/ /\ last.outcome = "ok"
                /\ Val(last.taskRecord).on_chain_tx_hash = Null
                /\ Val(last.taskRecord).on_chain_task_id = Null
             \/ /\ last.outcome = "AppError500"
                /\ last.faulted
                /\ last.inserts = 1

C6_Witness ==
  /\ CreateDone
  /\ last.outcome = "ok"
  /\ last.registered = Null
  /\ last.attempts = 3
  /\ last.waits = <<2000, 4000>>
  /\ Val(last.taskRecord).on_chain_tx_hash = Null

\* the on-chain columns a registrar outcome must give a row
HashOf(registered) ==
  IF registered = Null THEN Null ELSE Some(Val(registered).transactionHash)
TaskIdOf(registered) ==
  IF registered = Null THEN Null ELSE Some(Val(registered).taskId)

CarriesRegistration(row, registered) ==
  /\ row.on_chain_tx_hash = HashOf(registered)
  /\ row.on_chain_task_id = TaskIdOf(registered)

\* C7: whatever the registrar does, a createTaskRecord that passed its
\* checks ends only after attempting the insert; once the registrar has
\* succeeded it is not called again; the inserted row carries the hash and
\* task id of the successful attempt, and carries none exactly when all 3
\* attempts failed.
C7_RegistrationNeverAbortsInsert ==
  /\ (CreateDone /\ last.attempts > 0) => last.inserts = 1
  /\ \A i \in Procs :
       /\ inv[i].pc \in {"recordTask", "backoff"} => inv[i].registered = Null
       /\ PastRetryLoop(inv[i])
            => /\ inv[i].attempts \in 1..3
               /\ inv[i].registered = Null <=> inv[i].retryCount = 3
               /\ inv[i].registered # Null => inv[i].attempts = inv[i].retryCount + 1
       /\ inv[i].pc = "updateProject"
            => /\ CarriesRegistration(Val(inv[i].taskRecord), inv[i].registered)
               /\ CarriesRegistration(task_records[Val(inv[i].taskRecord).id],
                                      inv[i].registered)
  /\ (CreateDone /\ last.outcome = "ok")
       => CarriesRegistration(Val(last.taskRecord), last.registered)

\* the registrar succeeded on the second attempt and the row carries its result
C7_Witness ==
  \E i \in Procs :
    /\ inv[i].pc = "updateProject"
    /\ inv[i].attempts = 2
    /\ inv[i].registered = Some(RegistrarResult(i))
    /\ Val(inv[i].taskRecord).on_chain_tx_hash = Some(RegistrarResult(i).transactionHash)
    /\ Val(inv[i].taskRecord).on_chain_task_id = Some(RegistrarResult(i).taskId)

\* an updateTaskRating whose lookup returned a record with completed = false
RatingOfIncomplete ==
  /\ RatingDone
  /\ last.taskRecord # Null
  /\ ~Val(last.taskRecord).completed

\* C8 as stated: updateTaskRating on a record with completed = false fails
\* with ValidationError whoever the requester is.
C8_Original ==
  RatingOfIncomplete => last.outcome = "ValidationError"

\* C8 amended: updateTaskRating on a record with completed = false never
\* succeeds and writes nothing, whoever the requester is: it fails with
\* AuthorizationError for a requester other than the record's client (that
\* check comes first), and with ValidationError for the record's client
\* (Conflict if the record were already rated).
C8_IncompleteIsNeverRated ==
  RatingOfIncomplete
    => /\ last.writes = 0
       /\ last.outcome =
            IF Val(last.taskRecord).client_id # last.clientId
              THEN "AuthorizationError"
            ELSE IF Val(last.taskRecord).rating # Null
              THEN "ConflictError"
            ELSE "ValidationError"

C8_Witness ==
  /\ RatingOfIncomplete
  /\ Val(last.taskRecord).client_id = last.clientId
  /\ last.outcome = "ValidationError"
  /\ task_records[last.recordId].rating = Null

\* the requests of C9: the record's client calls again after an earlier
\* updateTaskRating on the record has returned
SecondRating ==
  /\ RatingDone
  /\ last.priorOk
  /\ last.taskRecord # Null
  /\ Val(last.taskRecord).client_id = last.clientId

\* C9: without overlap, the second updateTaskRating of the record's client
\* fails with Conflict whatever it carries, and the table keeps the rating
\* and rating_comment the first call stored.
C9_SecondRatingIsConflict ==
  /\ SecondRating => (last.outcome = "ConflictError" /\ last.writes = 0)
  /\ \A g \in ratedOk :
       /\ task_records[g.id].rating = g.rating
       /\ task_records[g.id].rating_comment = g.rating_comment

C9_Witness ==
  /\ SecondRating
  /\ last.outcome = "ConflictError"
  /\ \E g \in ratedOk : g.id = last.recordId /\ g.rating_comment # Null

\* C10: under every interleaving, a rating that is set never changes.
C10_RatingNeverChanges ==
  [][\A k \in 1..Len(task_records) :
       task_records[k].rating # Null
         => task_records'[k].rating = task_records[k].rating]_vars

\* C11: in every reachable state, a task record whose rating is set has
\* completed = true.
C11_RatedImpliesCompleted ==
  \A k \in 1..Len(task_records) :
    task_records[k].rating # Null => task_records[k].completed

\* a rating has been stored on a completed record
C11_Witness ==
  /\ RatingDone
  /\ last.outcome = "ok"
  /\ Val(last.taskRecord).rating # Null
  /\ Val(last.taskRecord).completed
  /\ task_records[last.recordId].rating # Null

\* a string without its leading and trailing white space, by position
Stripped(s) ==
  LET solid == {k \in 1..Len(s) : s[k] \notin WhiteSpace} IN
  IF solid = {} THEN <<>>
  ELSE SubSeq(s, CHOOSE a \in solid : \A k \in solid : a <= k,
                 CHOOSE b \in solid : \A k \in solid : k <= b)

\* the rating_comment a successful updateTaskRating must leave, given the
\* comment it was called with and the row's rating_comment before the write
ExpectedComment(comment, before) ==
  IF comment = Null THEN before
  ELSE IF Stripped(Val(comment)) = <<>> THEN Null
  ELSE Some(Stripped(Val(comment)))

\* C12: the step in which an updateTaskRating succeeds leaves as
\* rating_comment the trimmed comment when one is given and is not blank,
\* null when one is given and is empty or blank, and the value the row had
\* before the write when none is given; the returned row shows the same.
C12_CommentNormalized ==
  [][(last'.pc = "done" /\ last'.op = "updateTaskRating" /\ last'.outcome = "ok")
       => LET want == ExpectedComment(last'.comment,
                                      task_records[last'.recordId].rating_comment)
          IN /\ task_records'[last'.recordId].rating_comment = want
             /\ Val(last'.taskRecord).rating_comment = want]_vars

\* "a b" was given between a line feed and a no-break space, and "a b" is
\* stored
C12_Witness ==
  /\ RatingDone
  /\ last.outcome = "ok"
  /\ last.comment = Some(<<10, 97, 32, 98, 160>>)
  /\ task_records[last.recordId].rating_comment = Some(<<97, 32, 98>>)
  /\ Val(last.taskRecord).rating_comment = Some(<<97, 32, 98>>)

\* the response of a createTaskRecord whose insert came back without a row
InsertCameBackEmpty(f) ==
  /\ f.pc = "done"
  /\ f.op = "createTaskRecord"
  /\ f.inserts = 1
  /\ f.taskRecord = Null

\* C13: a createTaskRecord whose insert fails ends with an internal error
\* (status 500) in the step of the failed insert; that step adds no task
\* record and leaves the projects as they were, and the invocation has made
\* no store write at all.
C13_InsertFailureLeavesNoTrace ==
  [][InsertCameBackEmpty(last')
       => /\ last'.outcome = "AppError500"
          /\ last'.writes = 0
          /\ task_records' = task_records
          /\ projects' = projects]_vars

\* an insert failed after the checks passed: no row, project still in_progress
C13_Witness ==
  /\ InsertCameBackEmpty(last)
  /\ last.outcome = "AppError500"
  /\ last.attempts >= 1
  /\ RowsOf(last.project_id) = 0
  /\ projects[last.project_id].status = "in_progress"

\* the response of a createTaskRecord whose insert returned a row
InsertReturnedRow(f) ==
  /\ f.pc = "done"
  /\ f.op = "createTaskRecord"
  /\ f.taskRecord # Null

\* a stored row as it was when inserted, before any rating
AsInserted(row) == [row EXCEPT !.rating = Null, !.rating_comment = Null]

\* C14: a createTaskRecord whose insert succeeded ends with success and
\* returns the inserted row, which is in the store; in its last step, when
\* the project update succeeds the project's status becomes completed for
\* completed = true and cancelled for completed = false, and when the update
\* fails the projects stay as they were and the record is returned all the
\* same.
C14_ReturnsRecordWhateverTheUpdate ==
  [][InsertReturnedRow(last')
       => LET row == Val(last'.taskRecord)
              p == last'.project_id
          IN /\ last'.outcome = "ok"
             /\ row.id \in 1..Len(task_records')
             /\ AsInserted(task_records'[row.id]) = row
             /\ row.project_id = p
             /\ last'.writes \in {1, 2}
             /\ last'.writes = 2 =>
                  projects'[p].status = (IF row.completed THEN "completed"
                                                          ELSE "cancelled")
             /\ last'.writes = 1 => projects' = projects]_vars

\* the project update failed: the record is returned, the project is still
\* in_progress
C14_Witness ==
  /\ InsertReturnedRow(last)
  /\ last.outcome = "ok"
  /\ last.writes = 1
  /\ ~Val(last.taskRecord).completed
  /\ projects[last.project_id].status = "in_progress"

\* the lookup, status and authorization checks passed, as the frame shows
ChecksPassed(f) ==
  /\ f.project # Null
  /\ Val(f.project).status = "in_progress"
  /\ Val(f.project).client_id = f.clientId

\* the retry loop is over: a registrar result, or three failed calls
LoopEnded(f) == f.registered # Null \/ f.attempts = 3

\* the order of steps, for one createTaskRecord frame
InOrder(f) ==
  /\ f.attempts > 0 => ChecksPassed(f)
  /\ f.inserts > 0 => (ChecksPassed(f) /\ LoopEnded(f))
  /\ f.writes > 0 => (f.inserts = 1 /\ f.taskRecord # Null)

\* C15: in every createTaskRecord, running or ended: a registrar call has
\* been made only if the existence, status, authorization and duplicate
\* checks passed; an insert has been attempted only if the retry loop ended;
\* a store write (the insert, then the status write) has been made only if the
\* insert returned a row; while the duplicate check is pending or found a
\* row no registrar call has been made, and once the insert is attempted no
\* registrar call or wait is pending.
C15_StepsInOrder ==
  /\ CreateDone => InOrder(last)
  /\ \A i \in Procs :
       inv[i].op = "createTaskRecord" =>
         /\ InOrder(inv[i])
         /\ (inv[i].pc = "checkExisting" \/ inv[i].existingRecord # Null)
              => inv[i].attempts = 0
         /\ inv[i].inserts > 0 => inv[i].pc \notin {"checkExisting", "recordTask", "backoff"}
         /\ inv[i].pc = "updateProject" => (inv[i].inserts = 1 /\ inv[i].writes = 1)

\* a run through every step: three registrar calls, the insert, the status write
C15_Witness ==
  /\ CreateDone
  /\ last.outcome = "ok"
  /\ last.attempts = 3
  /\ last.inserts = 1
  /\ last.writes = 2

\* C16: a createTaskRecord that fails with NotFoundError names a project
\* that is not in the store; a project lookup that came back with a store
\* error other than "no rows" does not end in NotFoundError.
C16_NotFoundOnlyWhenMissing ==
  (CreateDone /\ last.outcome = "NotFoundError")
    => last.project_id \notin DOMAIN projects

\* C17: whenever a step adds a task record, the project the record is for
\* has status in_progress in the store at that step.
C17_InsertOnlyWhileInProgress ==
  [][Len(task_records') > Len(task_records)
       => projects[task_records'[Len(task_records')].project_id].status
            = "in_progress"]_vars

\* C18: the step in which a createTaskRecord ends with success has written
\* the project's status (the invocation made its two writes, the insert and
\* the status), no createTaskRecord for the project has ended with success
\* before, and the write takes the project from in_progress to completed or
\* cancelled.
C18_StatusWrittenExactlyOnce ==
  [][(last'.pc = "done" /\ last'.op = "createTaskRecord" /\ last'.outcome = "ok")
       => LET p == last'.project_id IN
          /\ last'.writes = 2
          /\ p \notin createdOk
          /\ projects[p].status = "in_progress"
          /\ projects'[p].status \in {"completed", "cancelled"}]_vars

\* a createTaskRecord that has started and has not ended
CreateRunning(i) == inv[i].op = "createTaskRecord" /\ inv[i].pc # "done"

\* at most 3 registrar calls and at most 2 backoff waits
WithinRetryBudget(f) == f.attempts <= 3 /\ Len(f.waits) <= 2

\* C19: when every pending store call, registrar call and backoff comes
\* back, every createTaskRecord that is running eventually ends; while it
\* runs and when it ends, with a record or with an error, it has made at most
\* 3 registrar calls and at most 2 backoff waits.
C19_CreateEndsWithinBudget ==
  /\ [](\A i \in Procs : CreateRunning(i) => WithinRetryBudget(inv[i]))
  /\ [](CreateDone => (WithinRetryBudget(last) /\ last.outcome # "none"))
  /\ \A i \in Procs : CreateRunning(i) ~> (inv[i].pc = "done")

\* a createTaskRecord has ended in failure after 3 registrar calls and 2 waits
C19_Witness ==
  /\ CreateDone
  /\ last.outcome = "AppError500"
  /\ last.attempts = 3
  /\ Len(last.waits) = 2
  /\ \A i \in Procs : ~CreateRunning(i)

\* C20: a createTaskRecord that obtained a registrar result has, when it
\* ends, a task record in the store for its project that carries the hash
\* and the task id of that result.
C20_RegistrationHasItsRecord ==
  (CreateDone /\ last.registered # Null)
    => \E k \in 1..Len(task_records) :
         /\ task_records[k].project_id = last.project_id
         /\ CarriesRegistration(task_records[k], last.registered)

====
